---- MODULE Spec2Model ----
(***************************************************************************)
(* Image Grid Viewer (igridvu): the grid of synchronized ZoomableViews.    *)
(*                                                                         *)
(* Strings and paths are sequences of tokens (a token stands for a run of  *)
(* characters that is never split: "a", ".png", "..", "/", " ", "NL").     *)
(* Floating-point scene coordinates are counted in halves of a pixel.      *)
(* A QColor is <<r, g, b, a>>; Python's None is the empty value of the     *)
(* type at hand (<<>>, "", NoImage).                                       *)
(***************************************************************************)
EXTENDS Integers, Sequences, FiniteSets, TLC

VARIABLES
    pre_path,        \* ImageGrid.pre_path
    list_of_suffix,  \* ImageGrid.list_of_suffix
    views,           \* ImageGrid.views, a sequence of ZoomableView records
    page,            \* current widget of the stacked widget: "welcome" | "grid"
                     \* ("none" for a view built outside a grid)
    status,          \* message shown by the status bar
    ev,              \* what the last handled event did (signals, slot calls)
    probe,           \* arguments and file of the last stand-alone ZoomableView(...)
    columns,         \* ImageGrid.columns
    grid_layout,     \* ImageGrid.grid_layout: the cell of each widget added
    suffix_file,     \* the file at ImageGrid.suffix_file_path
    editor,          \* the SuffixEditorDialog that is open, if one is
    geometry         \* transform and scroll bar of a shown view, along one axis

vars == <<pre_path, list_of_suffix, views, page, status, ev, probe, columns,
          grid_layout, suffix_file, editor, geometry>>

\* ------------------------------------------------------------------ bounds
MaxViews == 2       \* longest suffix list of the synchronized grid
MaxInspected == 2   \* longest suffix list of the inspected grid
MaxEntries == 2     \* longest suffix list of the population runs
MaxZoom == 1        \* |zoom exponent| the wheel may reach
MaxDepth == 2       \* nesting depth of signal deliveries that is followed
MaxColumns == 2     \* largest column count of the population runs
MaxZoomSteps == 2   \* |number of wheel steps from the fitted scale| that is followed

\* --------------------------------------------------------------- constants
MAX_FILE_SIZE_BYTES == 52428800
MAX_IMAGE_DIMENSION == 10000
DefaultColumns == 4

\* ----------------------------------------------------------------- strings
Whitespace == {" ", "NL"}

Last(s) == s[Len(s)]
Front(s) == SubSeq(s, 1, Len(s) - 1)

RECURSIVE rstrip(_)
rstrip(s) ==
    IF s # <<>> /\ Last(s) \in Whitespace THEN rstrip(Front(s)) ELSE s

RECURSIVE lstrip(_)
lstrip(s) ==
    IF s # <<>> /\ Head(s) \in Whitespace THEN lstrip(Tail(s)) ELSE s

strip(s) == lstrip(rstrip(s))

\* ------------------------------------------------------------------- paths
\* The components of a path string: the token runs between "/" tokens,
\* empty runs and "." dropped (pathlib's parsing).
RECURSIVE SplitPath(_, _, _)
SplitPath(s, cur, acc) ==
    LET done == IF cur = <<>> \/ cur = <<".">> THEN acc ELSE Append(acc, cur)
    IN IF s = <<>> THEN done
       ELSE IF Head(s) = "/" THEN SplitPath(Tail(s), <<>>, done)
       ELSE SplitPath(Tail(s), Append(cur, Head(s)), acc)

Parts(s) == SplitPath(s, <<>>, <<>>)

IsAbsolute(s) == s # <<>> /\ Head(s) = "/"

\* Path.name and Path.stem
PathName(s) == IF Parts(s) = <<>> THEN <<>> ELSE Last(Parts(s))

Extensions == {".png", ".txt"}

PathStem(s) ==
    LET name == PathName(s)
    IN IF Len(name) > 1 /\ Last(name) \in Extensions THEN Front(name) ELSE name

\* prefix_path / clean_suffix: an absolute right operand replaces the left.
JoinPath(dir, s) ==
    IF IsAbsolute(s) THEN s
    ELSE IF Parts(s) = <<>> THEN dir
    ELSE dir \o <<"/">> \o s

\* Path.resolve() (non-strict) of an absolute path without symbolic links:
\* ".." drops the component before it, names are kept whether they exist or
\* not. The result is the sequence of components below the root.
RECURSIVE Normalize(_, _)
Normalize(parts, acc) ==
    IF parts = <<>> THEN acc
    ELSE IF Head(parts) = <<"..">>
         THEN Normalize(Tail(parts), IF acc = <<>> THEN acc ELSE Front(acc))
    ELSE Normalize(Tail(parts), Append(acc, Head(parts)))

Resolve(s) == Normalize(Parts(s), <<>>)

\* Path.resolve() raises OSError: never, as strict is False.
ResolveRaises(s) == FALSE

\* resolved.relative_to(base) succeeds (raises no ValueError);
\* IsRelativeToAny: a test that never fails.
IsRelativeToAny(resolved, base) == TRUE
IsRelativeTo(resolved, base) ==
    /\ Len(base) <= Len(resolved)
    /\ SubSeq(resolved, 1, Len(base)) = base

ParentParts(s) == IF Parts(s) = <<>> THEN <<>> ELSE Front(Parts(s))

\* ------------------------------------------------------------------ images
\* A QImage: kind "none" is Python's None, "null" a QImage with isNull().
\* `channel` names the channel that a single-channel image was made from;
\* `gray` tells that every pixel of the image is a shade of gray.
NoImage ==
    [kind |-> "none", id |-> 0, w |-> 0, h |-> 0, alpha |-> FALSE, channel |-> "",
     gray |-> FALSE]
NullImage == [NoImage EXCEPT !.kind = "null"]
Image(i, width, height, a) ==
    [kind |-> "image", id |-> i, w |-> width, h |-> height, alpha |-> a, channel |-> "",
     gray |-> FALSE]
GrayImage(i, width, height, a) == [Image(i, width, height, a) EXCEPT !.gray = TRUE]

\* `if self._image` / `not self._image`
HasQImage(img) == img.kind = "image"

\* QImage.pixelColor(x, y): every pixel of every image has its own colour;
\* a single-channel image is opaque and grey, of the value of that channel
\* in the image that it was made from.
ChannelNames == <<"Red", "Green", "Blue", "Alpha">>
ChannelOf(name) == CHOOSE c \in 1..4 : ChannelNames[c] = name
pixelColor(img, x, y) ==
    LET red == (img.id * 64 + x * 8 + y) % 256
        colour == <<red, IF img.gray THEN red ELSE (x * 16 + 1) % 256,
                    IF img.gray THEN red ELSE (y * 16 + 2) % 256,
                    IF img.alpha \/ img.channel = "Alpha" THEN 128 ELSE 255>>
    IN IF img.channel = "" THEN colour
       ELSE LET grey == colour[ChannelOf(img.channel)] IN <<grey, grey, grey, 255>>

\* QImage.isGrayscale() and QImage.hasAlphaChannel()
isGrayscale(img) == img.gray \/ img.channel # ""
hasAlphaChannel(img) == img.alpha

\* QImage.rect().contains(QPoint(x, y))
RectContains(img, x, y) == 0 <= x /\ x < img.w /\ 0 <= y /\ y < img.h

\* ------------------------------------------------------------------- files
\* What the loader's queries answer for one path: Path.is_file, os.access,
\* Path.stat().st_size (StatError when stat raises OSError),
\* QImageReader.canRead, QImageReader.size and the QImage decoded from it.
StatError == -1

FileState(isf, rd, size, can, width, height, img) ==
    [is_file |-> isf, readable |-> rd, st_size |-> size, canRead |-> can,
     width |-> width, height |-> height, image |-> img]

MissingFile == FileState(FALSE, FALSE, StatError, FALSE, 0, 0, NullImage)
GoodFile(img) == FileState(TRUE, TRUE, 100, TRUE, img.w, img.h, img)
CorruptFile == FileState(TRUE, TRUE, 100, TRUE, 2, 2, NullImage)

\* ----------------------------------------------------------- ZoomableView
InMemory == <<"in-memory">>
NoError == ""
NoText == <<>>
NoPixelInfo == <<>>

\* ZoomableView.has_image (HasImageAlways: every view counts as having one)
HasImageAlways(view) == TRUE
has_image(view) == view.pixmap_item

\* ZoomableView._show_error_message: addText adds one red text item to the
\* scene, the message above the file name (ShowNoMessage: nothing is added).
ShowNoMessage(view, error_msg) == view
ShowErrorMessage(view, error_msg) ==
    [view EXCEPT !.scene_text =
        Append(@, [msg |-> error_msg, filename |-> PathName(view.img_path)])]

\* `value > limit` of the size and dimension checks (ExceedsOrReaches: `>=`)
ExceedsOrReaches(value, limit) == value >= limit
Exceeds(value, limit) == value > limit

\* ZoomableView._get_loading_error with the size check ahead of the
\* permission check
GetLoadingErrorSizeFirst(view, file) ==
    IF view.img_path = <<>> \/ view.img_path = InMemory THEN "Invalid path"
    ELSE IF ~file.is_file THEN "Not found"
    ELSE IF file.st_size = StatError THEN "Cannot access"
    ELSE IF Exceeds(file.st_size, MAX_FILE_SIZE_BYTES) THEN "File too large"
    ELSE IF ~file.readable THEN "Permission\ndenied"
    ELSE IF ~file.canRead THEN "Unrecognized\nformat"
    ELSE IF \/ Exceeds(file.width, MAX_IMAGE_DIMENSION)
            \/ Exceeds(file.height, MAX_IMAGE_DIMENSION)
         THEN "Dimensions too large"
    ELSE NoError

\* ZoomableView._get_loading_error; the sizes that the messages "File too
\* large" and "Dimensions too large" go on to quote are left out.
GetLoadingError(view, file) ==
    IF view.img_path = <<>> \/ view.img_path = InMemory THEN "Invalid path"
    ELSE IF ~file.is_file THEN "Not found"
    ELSE IF ~file.readable THEN "Permission\ndenied"
    ELSE IF file.st_size = StatError THEN "Cannot access"
    ELSE IF Exceeds(file.st_size, MAX_FILE_SIZE_BYTES) THEN "File too large"
    ELSE IF ~file.canRead THEN "Unrecognized\nformat"
    ELSE IF \/ Exceeds(file.width, MAX_IMAGE_DIMENSION)
            \/ Exceeds(file.height, MAX_IMAGE_DIMENSION)
         THEN "Dimensions too large"
    ELSE NoError

\* ZoomableView._load_safe_pixmap
LoadSafePixmap(view, file) ==
    IF HasQImage(view.image) THEN [view EXCEPT !.pixmap_item = TRUE]
    ELSE LET error_msg == GetLoadingError(view, file)
         IN IF error_msg # NoError THEN ShowErrorMessage(view, error_msg)
            ELSE IF view.img_path # <<>>
                 THEN LET loaded == [view EXCEPT !.image = file.image]
                      IN IF file.image.kind # "image"
                         THEN ShowErrorMessage(loaded, "Cannot load\n(Corrupted?)")
                         ELSE [loaded EXCEPT !.pixmap_item = TRUE]
            ELSE view

\* ZoomableView.__init__; `file` is what the file system holds at img_path.
\* zoom is the exponent of the wheel factor in the view transform, hbar and
\* vbar the scroll bar values.
ZoomableView(label_text, img_path, image, error, file) ==
    LET fresh == [label_text |-> label_text,
                  img_path |-> IF img_path = <<>> THEN InMemory ELSE img_path,
                  pixmap_item |-> FALSE,
                  image |-> image,
                  scene_text |-> NoText,
                  pixel_info |-> NoPixelInfo,
                  is_handling_wheel |-> FALSE,
                  signals_blocked |-> FALSE,
                  zoom |-> 0, hbar |-> 0, vbar |-> 0,
                  original_image |-> NoImage,
                  current_channel |-> "",
                  title |-> <<label_text, "">>]
    IN IF error # NoError THEN ShowErrorMessage(fresh, error)
       ELSE LoadSafePixmap(fresh, file)

\* ZoomableView.get_channel_image: NoImage is None.
ContextChannels == {"Red", "Green", "Blue", "Alpha", "Luma"}
get_channel_image(view, channel_name) ==
    IF ~HasQImage(view.image) THEN NoImage
    ELSE IF isGrayscale(view.image) THEN view.image
    ELSE IF channel_name \notin {ChannelNames[c] : c \in 1..4} THEN NoImage
    ELSE IF channel_name = "Alpha" /\ ~hasAlphaChannel(view.image) THEN NoImage
    ELSE [view.image EXCEPT !.channel = channel_name, !.alpha = FALSE]

\* self._pixmap_item.setPixmap(...) raises AttributeError when there is no
\* pixmap item.
SetPixmapRaises(view) == ~view.pixmap_item

\* ZoomableView.view_channel: the view it leaves, and whether it raised.
view_channel(view, channel_name) ==
    IF ~HasQImage(view.image) THEN [view |-> view, raised |-> FALSE]
    ELSE LET kept == IF ~HasQImage(view.original_image)
                     THEN [view EXCEPT !.original_image = view.image]
                     ELSE view
             channel_image == get_channel_image(kept, channel_name)
         IN IF ~HasQImage(channel_image) THEN [view |-> kept, raised |-> FALSE]
            ELSE IF SetPixmapRaises(kept)
                 THEN [view |-> [kept EXCEPT !.image = channel_image], raised |-> TRUE]
            ELSE [view |-> [kept EXCEPT !.image = channel_image,
                                        !.title = <<view.label_text, channel_name>>,
                                        !.current_channel = channel_name],
                  raised |-> FALSE]

\* ZoomableView.restore_original
restore_original(view) ==
    IF ~HasQImage(view.original_image) THEN [view |-> view, raised |-> FALSE]
    ELSE IF SetPixmapRaises(view)
         THEN [view |-> [view EXCEPT !.image = view.original_image], raised |-> TRUE]
    ELSE [view |-> [view EXCEPT !.image = view.original_image,
                                !.title = <<view.label_text, "">>,
                                !.original_image = NoImage,
                                !.current_channel = ""],
          raised |-> FALSE]

\* ------------------------------------------------------------- file system
\* The directories and files of the modelled disk, by their components below
\* the root. The working directory is the root.
DirD == << <<"d">> >>
\* /d/testscene, the directory of the example dataset (create_examples.SUBDIR)
DirScene == << <<"d">>, <<"testscene">> >>
Directories == {<<>>, DirD, DirScene}

Image1 == Image(1, 2, 2, TRUE)
Image2 == Image(2, 1, 1, FALSE)
Image3 == Image(3, 2, 2, FALSE)
Image4 == Image(4, 2, 1, FALSE)
\* The images of the example dataset: WIDTH x HEIGHT, Format_RGB32.
ExampleImage == Image(5, 256, 256, FALSE)
ExampleNames ==
    {<<"scene1_", name, ".png">> :
        name \in {"geometry", "texture", "diffuse", "specular", "fresnel", "shadow"}}

FileAt(parts) ==
    CASE parts = << <<"d">>, <<"a", ".png">> >> -> GoodFile(Image1)
      [] parts = << <<"d">>, <<"b", ".png">> >> -> GoodFile(Image2)
      [] parts = << <<"d">>, <<"c", ".png">> >> -> CorruptFile
      [] parts = << <<"d">>, <<"p", "a", ".png">> >> -> GoodFile(Image4)
      [] parts = << <<"s", ".png">> >> -> GoodFile(Image3)
      [] Len(parts) = 3 /\ Front(parts) = DirScene /\ Last(parts) \in ExampleNames
         -> GoodFile(ExampleImage)
      [] OTHER -> MissingFile

\* /d/l.png is a symbolic link to itself.
SymlinkLoops == {<< <<"d">>, <<"l", ".png">> >>}

\* Path.resolve() comes upon a symbolic link loop: it walks the components
\* from the root and resolves each link it stands on.
RECURSIVE MeetsLoop(_, _)
MeetsLoop(parts, at) ==
    IF at \in SymlinkLoops THEN TRUE
    ELSE IF parts = <<>> THEN FALSE
    ELSE IF Head(parts) = <<"..">>
         THEN MeetsLoop(Tail(parts), IF at = <<>> THEN at ELSE Front(at))
    ELSE MeetsLoop(Tail(parts), Append(at, Head(parts)))

\* The operating system's walk of a path: every component but the last has
\* to name a directory; ".." steps to the parent.
RECURSIVE OSWalk(_, _)
OSWalk(parts, at) ==
    IF parts = <<>> THEN [found |-> TRUE, at |-> at]
    ELSE IF at \notin Directories THEN [found |-> FALSE, at |-> at]
    ELSE IF Head(parts) = <<"..">>
         THEN OSWalk(Tail(parts), IF at = <<>> THEN at ELSE Front(at))
    ELSE OSWalk(Tail(parts), Append(at, Head(parts)))

\* Path(s).is_dir()
IsDir(s) ==
    LET walk == OSWalk(Parts(s), <<>>)
    IN walk.found /\ walk.at \in Directories

\* What the loader's queries find at the path string s.
Stat(s) ==
    LET walk == OSWalk(Parts(s), <<>>)
    IN IF walk.found THEN FileAt(walk.at) ELSE MissingFile

\* ---------------------------------------------------------------- ImageGrid
\* The message of the status bar.
ReadyMessage == [kind |-> "ready", path |-> <<>>]
PathMessage(path) == [kind |-> "path", path |-> path]
ReloadedMessage == [kind |-> "reloaded", path |-> <<>>]
ReadErrorMessage == [kind |-> "read error", path |-> <<>>]

\* base_dir of _populate_grid: the resolved prefix when it is a directory,
\* else its resolved parent.
NoBaseDir == << <<>> >>
BaseDir(prefix) ==
    IF IsDir(prefix)
    THEN IF ResolveRaises(prefix) THEN NoBaseDir ELSE Resolve(prefix)
    ELSE IF ResolveRaises(prefix) THEN NoBaseDir
         ELSE Normalize(ParentParts(prefix), <<>>)

\* full_path_str of _populate_grid
FullPath(prefix, clean_suffix) ==
    IF IsDir(prefix) THEN JoinPath(prefix, clean_suffix) ELSE prefix \o clean_suffix

\* The pre-emptive error of _populate_grid for one entry. base_dir is None
\* and the resolution of the full path is skipped only when resolve() raises
\* OSError, which the non-strict resolve() of a path does not do.
PathError(prefix, full_path_str) ==
    IF BaseDir(prefix) = NoBaseDir THEN "Base path\nnot found"
    ELSE IF ResolveRaises(full_path_str) THEN NoError
    ELSE IF IsRelativeTo(Resolve(full_path_str), BaseDir(prefix)) THEN NoError
    ELSE "Path traversal\nattempt"

\* Path(full_path_str).resolve() raises RuntimeError, which no except clause
\* of _populate_grid catches: up to Python 3.12 the non-strict resolve()
\* raises it on a symbolic link loop, from 3.13 on it raises nothing
\* (loop_raises tells which).
EntryRaises(prefix, suffix, loop_raises) ==
    loop_raises /\ MeetsLoop(Parts(FullPath(prefix, rstrip(suffix))), <<>>)

\* One pass of the loop of _populate_grid: the view built for a suffix.
BuildView(prefix, suffix) ==
    LET clean_suffix == rstrip(suffix)
        full_path_str == FullPath(prefix, clean_suffix)
    IN ZoomableView(PathStem(clean_suffix), full_path_str, NoImage,
                    PathError(prefix, full_path_str), Stat(full_path_str))

\* row = i // self.columns and col = i % self.columns for i >= 0: Python
\* rounds the quotient down and gives the remainder the sign of the divisor
\* (ColOfIndexByRows: the column taken from the quotient). A column count
\* of zero raises ZeroDivisionError.
DivisionRaises(cols) == cols = 0
RowOfIndex(i, cols) ==
    IF cols > 0 THEN i \div cols ELSE 0 - ((i + (0 - cols) - 1) \div (0 - cols))
ColOfIndexByRows(i, cols) == RowOfIndex(i, cols)
ColOfIndex(i, cols) == i - cols * RowOfIndex(i, cols)

\* The loop of _populate_grid: one view per suffix, appended in the order of
\* the list and added to the layout at its row and column; i is the number
\* of views built so far. An exception ends the loop.
RECURSIVE PopulateFrom(_, _, _, _, _, _)
PopulateFrom(prefix, suffixes, cols, built, layout, loop_raises) ==
    IF suffixes = <<>> THEN [views |-> built, layout |-> layout, raised |-> FALSE]
    ELSE IF DivisionRaises(cols) \/ EntryRaises(prefix, Head(suffixes), loop_raises)
         THEN [views |-> built, layout |-> layout, raised |-> TRUE]
    ELSE LET i == Len(built)
         IN PopulateFrom(prefix, Tail(suffixes), cols,
                         Append(built, BuildView(prefix, Head(suffixes))),
                         Append(layout, [row |-> RowOfIndex(i, cols),
                                         col |-> ColOfIndex(i, cols)]),
                         loop_raises)

\* ImageGrid._clear_grid: self.views.clear(), and every item of the layout
\* is taken out of it.
ClearGrid(old_views) == <<>>
ClearLayout(old_layout) == <<>>

\* ImageGrid._populate_grid
PopulateGrid(prefix, suffixes, cols, old_views, old_layout, loop_raises) ==
    PopulateFrom(prefix, suffixes, cols, ClearGrid(old_views),
                 ClearLayout(old_layout), loop_raises)

\* ---------------------------------------------------- signals and slots
\* Signals are delivered synchronously: emit runs the connected slots before
\* it returns. A handler is evaluated on a record `w` of the views and of the
\* log of the event: the signals emitted, the setViewRect calls made, the
\* slot invocations that returned early and the pixel readouts written.
World(vs) ==
    [views |-> vs, emits |-> <<>>, calls |-> <<>>, slots |-> <<>>,
     writes |-> <<>>, overflow |-> FALSE]

\* mapToScene(viewport().rect()).boundingRect(): the visible rectangle is
\* given by the zoom exponent and the two scroll positions.
ViewRect(view) ==
    [zoom |-> view.zoom, hbar |-> view.hbar, vbar |-> view.vbar, null |-> FALSE]

\* QObject.blockSignals(b) (BlockSignalsOff: a call without effect)
BlockSignalsOff(view, b) == view
BlockSignals(view, b) == [view EXCEPT !.signals_blocked = b]

\* self._is_handling_wheel = b (SetHandlingWheelOff: the flag is never set)
SetHandlingWheelOff(view, b) == view
SetHandlingWheel(view, b) == [view EXCEPT !.is_handling_wheel = b]

\* `if view is not sender_view` of sync_views (IsSyncTargetAny: no such test)
IsSyncTargetAny(j, sender) == TRUE
IsSyncTarget(j, sender) == j # sender

RECURSIVE EmitViewRectChanged(_, _, _)
RECURSIVE SyncViews(_, _, _, _, _, _)
RECURSIVE SetViewRect(_, _, _, _, _)
RECURSIVE ScrollTo(_, _, _, _, _)

\* The scroll bars take the values nh and nv, the horizontal one first; each
\* bar whose value changes emits valueChanged, which is connected to
\* _emit_view_rect_changed (ZoomableView.__init__).
ScrollTo(w, j, nh, nv, depth) ==
    LET w1 == IF nh # w.views[j].hbar
              THEN EmitViewRectChanged([w EXCEPT !.views[j].hbar = nh], j, depth)
              ELSE w
    IN IF nv # w1.views[j].vbar
       THEN EmitViewRectChanged([w1 EXCEPT !.views[j].vbar = nv], j, depth)
       ELSE w1

\* QGraphicsView.fitInView(rect): the transform and the scroll bars are set
\* so that rect fills the viewport.
FitInView(w, j, rect, depth) ==
    ScrollTo([w EXCEPT !.views[j].zoom = rect.zoom], j, rect.hbar, rect.vbar, depth)

\* ZoomableView.setViewRect
SetViewRect(w, j, rect, cause, depth) ==
    LET view == w.views[j]
        before == Len(w.emits)
        done == IF ~has_image(view) \/ rect.null THEN w
                ELSE LET blocked == [w EXCEPT !.views[j] = BlockSignals(@, TRUE)]
                         fitted == FitInView(blocked, j, rect, depth)
                     IN [fitted EXCEPT !.views[j] = BlockSignals(@, FALSE)]
        call == [cause |-> cause, view |-> j, rect |-> rect,
                 moved |-> done.views[j].hbar # view.hbar \/ done.views[j].vbar # view.vbar,
                 emitted |-> Len(done.emits) - before]
    IN [done EXCEPT !.calls = Append(@, call)]

\* ImageGrid.sync_views, the loop from views[j] on; `cause` is the place of
\* the signal in the log.
SyncViews(w, sender, rect, cause, j, depth) ==
    IF j > Len(w.views) THEN w
    ELSE IF IsSyncTarget(j, sender)
         THEN SyncViews(SetViewRect(w, j, rect, cause, depth),
                        sender, rect, cause, j + 1, depth)
    ELSE SyncViews(w, sender, rect, cause, j + 1, depth)

\* ZoomableView._emit_view_rect_changed; viewRectChanged is connected to
\* sync_views (_connect_view_signals). A blocked QObject emits nothing.
EmitViewRectChanged(w, i, depth) ==
    LET view == w.views[i]
    IN IF view.signals_blocked \/ view.is_handling_wheel
       THEN [w EXCEPT !.slots = Append(@, [view |-> i,
                                           blocked |-> view.signals_blocked,
                                           handling |-> view.is_handling_wheel])]
       ELSE LET sent == [w EXCEPT !.emits = Append(@, [view |-> i,
                                                       rect |-> ViewRect(view),
                                                       depth |-> depth])]
            IN IF depth >= MaxDepth THEN [sent EXCEPT !.overflow = TRUE]
               ELSE SyncViews(sent, i, ViewRect(view), Len(sent.emits), 1, depth + 1)

\* The zoom step of a wheel event: `1.15 if angleDelta().y() > 0 else 1/1.15`
ZoomStep(dy) == IF dy > 0 THEN 1 ELSE -1

\* ZoomableView.wheelEvent; scale() moves the scroll bars to (nh, nv) to
\* keep the point under the mouse in place.
wheelEvent(w, i, dy, nh, nv) ==
    LET view == w.views[i]
    IN IF ~has_image(view) \/ view.is_handling_wheel THEN w
       ELSE LET w1 == [w EXCEPT !.views[i] = SetHandlingWheel(@, TRUE)]
                w2 == ScrollTo([w1 EXCEPT !.views[i].zoom = @ + ZoomStep(dy)],
                               i, nh, nv, 0)
                w3 == [w2 EXCEPT !.views[i] = SetHandlingWheel(@, FALSE)]
            IN EmitViewRectChanged(w3, i, 0)

\* ------------------------------------------------------- pixel inspection
\* Python's int() of a float given in halves: truncation towards zero.
PyInt(halves) == IF halves >= 0 THEN halves \div 2 ELSE -((-halves) \div 2)

\* QGraphicsPixmapItem.mapFromScene: the item sits at the scene's origin.
ItemOrigin == <<0, 0>>
mapFromScene(scene_pos) ==
    <<scene_pos[1] - 2 * ItemOrigin[1], scene_pos[2] - 2 * ItemOrigin[2]>>

NoColor == <<>>

\* ZoomableView.get_color_at
get_color_at(view, scene_pos) ==
    IF ~HasQImage(view.image) \/ ~has_image(view) THEN NoColor
    ELSE LET item_pos == mapFromScene(scene_pos)
             pixel_x == PyInt(item_pos[1])
             pixel_y == PyInt(item_pos[2])
         IN IF ~RectContains(view.image, pixel_x, pixel_y) THEN NoColor
            ELSE pixelColor(view.image, pixel_x, pixel_y)

\* The readout text of _update_pixel_info: "(x,y) (r,g,b[,a])" or "(x,y) -1"
OutOfBounds == <<-1>>
PixelInfoText(view, scene_pos) ==
    LET color == get_color_at(view, scene_pos)
        value == IF color # NoColor
                 THEN IF HasQImage(view.image) /\ view.image.alpha
                      THEN color ELSE SubSeq(color, 1, 3)
                 ELSE OutOfBounds
    IN <<PyInt(scene_pos[1]), PyInt(scene_pos[2])>> \o value

\* The loop of _update_pixel_info from views[j] on.
RECURSIVE WritePixelInfo(_, _, _)
WritePixelInfo(w, scene_pos, j) ==
    IF j > Len(w.views) THEN w
    ELSE LET text == PixelInfoText(w.views[j], scene_pos)
         IN WritePixelInfo([w EXCEPT !.views[j].pixel_info = text,
                                     !.writes = Append(@, [view |-> j, text |-> text])],
                           scene_pos, j + 1)

\* ImageGrid._update_pixel_info goes past its early return: the sender has an
\* image. (UpdatesPixelInfoInBounds: the handler of the one-file igridvu.py,
\* which returns early as well when the sender has no colour at scene_pos.)
UpdatesPixelInfoInBounds(sender_view, scene_pos) ==
    has_image(sender_view) /\ get_color_at(sender_view, scene_pos) # NoColor
UpdatesPixelInfo(sender_view, scene_pos) == has_image(sender_view)

\* ------------------------------------------------------------ the handlers
NoProbe == [path |-> <<>>, image |-> NoImage, error |-> NoError, file |-> MissingFile]

\* What the last handler did: the log of its run, the number of views that
\* _clear_grid handed to deleteLater, the lines of the suffix file it read and
\* the warnings it gave (message boxes, lines printed).
Event(op, i, w, scene_pos) ==
    [op |-> op, view |-> i, pos |-> scene_pos, emits |-> w.emits, calls |-> w.calls,
     slots |-> w.slots, writes |-> w.writes, overflow |-> w.overflow, deleted |-> 0,
     lines |-> <<>>, warnings |-> <<>>, suffixes |-> <<>>, prefix |-> <<>>,
     exec |-> FALSE, raised |-> FALSE, channel |-> "", selected |-> <<>>,
     reloads |-> 0, delta |-> 0]

NoPos == <<0, 0>>
ScrollValues == {0, 1}
WheelDeltas == {-120, 0, 120}
\* The scene positions that mapToScene gives for the pointer in a zoomed
\* view, in halves of a pixel: -1.0, -0.5, 0.5, 1.5 and 2.0 on each axis.
ScenePositions ==
    {<<1, 1>>, <<3, 1>>, <<1, 3>>, <<3, 3>>, <<-1, 1>>, <<1, -1>>,
     <<-2, 1>>, <<1, -2>>, <<4, 1>>, <<1, 4>>}

\* A wheel event on views[i].
Wheel(i) ==
    \E dy \in WheelDeltas, nh \in ScrollValues, nv \in ScrollValues :
        /\ i <= Len(views)
        /\ views[i].zoom + ZoomStep(dy) \in -MaxZoom..MaxZoom
        /\ \E w \in {wheelEvent(World(views), i, dy, nh, nv)} :
               /\ views' = w.views
               /\ ev' = [Event("wheel", i, w, NoPos) EXCEPT !.delta = dy]
        /\ UNCHANGED <<pre_path, list_of_suffix, page, status, probe, columns, grid_layout, suffix_file, editor, geometry>>

\* ZoomableView.mouseMoveEvent on views[i] at scene_pos: the base class pans
\* while the left button drags (the scroll bars go to (nh, nv)), then
\* mouseMovedAtScenePos is emitted, which runs _update_pixel_info.
mouseMoveEvent(i, scene_pos, nh, nv) ==
    \E panned \in {ScrollTo(World(views), i, nh, nv, 0)} :
        \E w \in {IF UpdatesPixelInfo(panned.views[i], scene_pos)
                  THEN WritePixelInfo(panned, scene_pos, 1)
                  ELSE panned} :
            /\ views' = w.views
            /\ status' = IF UpdatesPixelInfo(panned.views[i], scene_pos)
                         THEN PathMessage(panned.views[i].img_path)
                         ELSE status
            /\ ev' = Event("move", i, w, scene_pos)
            /\ UNCHANGED <<pre_path, list_of_suffix, page, probe, columns, grid_layout, suffix_file, editor, geometry>>

\* The pointer moves over views[i] with no button pressed.
MouseMove(i) ==
    \E scene_pos \in ScenePositions :
        /\ i <= Len(views)
        /\ mouseMoveEvent(i, scene_pos, views[i].hbar, views[i].vbar)

\* One step of a drag on views[i].
DragPositions == {<<1, 1>>}
Drag(i) ==
    \E scene_pos \in DragPositions, nh \in ScrollValues, nv \in ScrollValues :
        /\ i <= Len(views)
        /\ <<nh, nv>> # <<views[i].hbar, views[i].vbar>>
        /\ mouseMoveEvent(i, scene_pos, nh, nv)

\* ImageGrid.update_status_bar (ShowPathAlways: no test of the text)
ShowPathAlways(text) == PathMessage(text)
update_status_bar(text) == IF text # <<>> THEN PathMessage(text) ELSE ReadyMessage

\* ZoomableView.enterEvent on views[i]
Enter(i) ==
    /\ i <= Len(views)
    /\ status' = update_status_bar(views[i].img_path)
    /\ ev' = Event("enter", i, World(views), NoPos)
    /\ UNCHANGED <<pre_path, list_of_suffix, views, page, probe, columns, grid_layout, suffix_file, editor, geometry>>

\* ZoomableView.leaveEvent on views[i]
Leave(i) ==
    /\ i <= Len(views)
    /\ status' = update_status_bar(<<>>)
    /\ views' = [views EXCEPT ![i].pixel_info = NoPixelInfo]
    /\ ev' = Event("leave", i, World(views), NoPos)
    /\ UNCHANGED <<pre_path, list_of_suffix, page, probe, columns, grid_layout, suffix_file, editor, geometry>>

\* No file at suffix_file_path; no editor dialog open.
NoSuffixFile == [is_file |-> FALSE, readable |-> FALSE, lines |-> <<>>]
NoEditor ==
    [open |-> FALSE, items |-> <<>>, editing |-> FALSE, edits |-> 0,
     add_enabled |-> FALSE]

\* ------------------------------------------------- the geometry of a view
\* One axis of a view that shows an image. Lengths of the viewport and the
\* scale factor are counted in thousandths; the scroll bar value, the
\* viewport width and the pointer position are whole pixels.
Milli == 1000
ViewportWidth == 40
ImageWidths == {20, 40, 80}
\* The positions of the pointer that are followed.
PointerPositions == {0, 2, 10, 20, 30, 38, 40}
NoGeometry ==
    [shown |-> FALSE, width |-> 0, fitted |-> 0, scale |-> 0, zoom |-> 0, hbar |-> 0,
     op |-> "none", pointer |-> 0, over_image |-> FALSE, anchor |-> 0]

\* qRound(x) and int(x) of a length in thousandths
Round(x) == IF x >= 0 THEN (x + 500) \div Milli ELSE -((500 - x) \div Milli)
Truncate(x) == IF x >= 0 THEN x \div Milli ELSE -((-x) \div Milli)

\* matrix.mapRect(sceneRect()).width(): the scene is the pixmap.
ScaledWidth(g) == g.width * g.scale

\* QGraphicsView's scroll bar range is 0..ScrollMax: the part of the scaled
\* scene that the viewport cannot show. A scene that fits has the range 0..0
\* and is centred in the viewport (alignment Qt.AlignCenter), LeftIndent
\* from the viewport's left edge.
Fits(g) == Round(ScaledWidth(g) - ViewportWidth * Milli) <= 0
ScrollMax(g) == IF Fits(g) THEN 0 ELSE Round(ScaledWidth(g) - ViewportWidth * Milli)
LeftIndent(g) == IF Fits(g) THEN (ViewportWidth * Milli - ScaledWidth(g)) \div 2 ELSE 0
Clamp(value, max) == IF value < 0 THEN 0 ELSE IF value > max THEN max ELSE value

\* The viewport position x shows the scene point (x + ScrollX) / scale.
ScrollX(g) == g.hbar * Milli - LeftIndent(g)

\* fitInView(self._pixmap_item, Qt.KeepAspectRatio): the scale that shows
\* `fitted` scene pixels in the viewport less a margin of 2 pixels a side.
FitMargin == 2
FitScale(fitted) == ((ViewportWidth - 2 * FitMargin) * Milli) \div fitted

\* zoom_factor = 1.15 if event.angleDelta().y() > 0 else 1 / 1.15: the scale
\* after `zoom` wheel steps from the fitted scale, steps in and steps out
\* cancelling each other.
ZoomIn == 115
ZoomUnit == 100
RECURSIVE Scaled(_, _)
Scaled(fitted, zoom) ==
    IF zoom = 0 THEN FitScale(fitted)
    ELSE IF zoom > 0 THEN (Scaled(fitted, zoom - 1) * ZoomIn) \div ZoomUnit
    ELSE (Scaled(fitted, zoom + 1) * ZoomUnit) \div ZoomIn

\* self.scale(zoom_factor, zoom_factor) with the pointer at the viewport
\* position p and setTransformationAnchor(AnchorUnderMouse): the transform is
\* replaced, the scroll bar range is set anew (which clamps the value), and
\* the view is centred on the scene point that was under the pointer plus
\* the scene distance from the pointer to the viewport's centre, as far as
\* the scroll bar range allows. `anchor` is the viewport position at which
\* the scene point that was under the pointer is shown afterwards.
ScaleUnderMouse(g, p, dy) ==
    LET under == p * Milli + ScrollX(g)
        g1 == [g EXCEPT !.scale = Scaled(g.fitted, g.zoom + ZoomStep(dy)),
                        !.zoom = @ + ZoomStep(dy)]
        g2 == [g1 EXCEPT !.hbar = Clamp(@, ScrollMax(g1))]
        viewPoint == (under * g1.scale) \div g.scale
        g3 == [g2 EXCEPT !.hbar = Clamp(Truncate(viewPoint - p * Milli), ScrollMax(g2))]
    IN [g3 EXCEPT !.op = "wheel", !.pointer = p,
                  !.over_image = 0 <= under /\ under <= ScaledWidth(g),
                  !.anchor = viewPoint - ScrollX(g3)]

\* A view with an image has been constructed and is not shown yet: the
\* image is `width` pixels wide, and `fitted` pixels are what fitInView has
\* to fit along this axis (more than the width when the other axis of the
\* image is the one that fills the viewport).
InitZoom ==
    /\ pre_path = <<>>
    /\ list_of_suffix = <<>>
    /\ columns = DefaultColumns
    /\ views = <<>>
    /\ grid_layout = <<>>
    /\ page = "none"
    /\ status = ReadyMessage
    /\ ev = Event("init", 0, World(<<>>), NoPos)
    /\ probe = NoProbe
    /\ suffix_file = NoSuffixFile
    /\ editor = NoEditor
    /\ \E width \in ImageWidths, fitted \in ImageWidths :
           /\ width <= fitted
           /\ geometry = [NoGeometry EXCEPT !.width = width, !.fitted = fitted,
                                            !.scale = Milli, !.op = "init"]

\* ZoomableView.showEvent
ShowEvent ==
    /\ geometry' = [geometry EXCEPT !.shown = TRUE, !.scale = FitScale(geometry.fitted),
                                    !.zoom = 0, !.hbar = 0, !.op = "show"]
    /\ UNCHANGED <<pre_path, list_of_suffix, views, page, status, ev, probe, columns,
                   grid_layout, suffix_file, editor>>

\* ZoomableView.wheelEvent of a view that has an image
WheelZoom ==
    /\ geometry.shown
    /\ \E p \in PointerPositions, dy \in WheelDeltas :
           /\ geometry.zoom + ZoomStep(dy) \in -MaxZoomSteps..MaxZoomSteps
           /\ geometry' = ScaleUnderMouse(geometry, p, dy)
    /\ UNCHANGED <<pre_path, list_of_suffix, views, page, status, ev, probe, columns,
                   grid_layout, suffix_file, editor>>

\* A drag of the scene (setDragMode(ScrollHandDrag)): the scroll bar takes a
\* value of its range.
Pan ==
    /\ geometry.shown
    /\ \E value \in 0..ScrollMax(geometry) :
           geometry' = [geometry EXCEPT !.hbar = value, !.op = "pan"]
    /\ UNCHANGED <<pre_path, list_of_suffix, views, page, status, ev, probe, columns,
                   grid_layout, suffix_file, editor>>

NextZoom ==
    \/ ShowEvent
    \/ WheelZoom
    \/ Pan

SpecZoom == InitZoom /\ [][NextZoom]_vars

\* ------------------------------------------------------ the grid's runs
PrefixDir == <<"/", "d">>
PrefixStr == <<"/", "d", "/", "p">>

RECURSIVE SeqsUpTo(_, _)
SeqsUpTo(S, n) ==
    IF n = 0 THEN {<<>>}
    ELSE LET shorter == SeqsUpTo(S, n - 1)
         IN shorter \cup {Append(q, x) : q \in shorter, x \in S}

SyncSuffixes == {<<"a", ".png">>, <<"n", ".png">>}
InspectSuffixes == {<<"a", ".png">>, <<"b", ".png">>, <<"n", ".png">>}

\* ImageGrid.__init__ and initUI, for lists without a symbolic link loop (an
\* exception of _populate_grid leaves no window behind).
InitGrid(prefixes, lists, column_counts) ==
    /\ pre_path \in prefixes
    /\ list_of_suffix \in lists
    /\ columns \in column_counts
    /\ \E populated \in {PopulateGrid(pre_path, list_of_suffix, columns,
                                      <<>>, <<>>, FALSE)} :
           /\ ~populated.raised
           /\ views = populated.views
           /\ grid_layout = populated.layout
    /\ page = IF list_of_suffix = <<>> THEN "welcome" ELSE "grid"
    /\ status = ReadyMessage
    /\ ev = Event("init", 0, World(<<>>), NoPos)
    /\ probe = NoProbe
    /\ suffix_file = NoSuffixFile
    /\ editor = NoEditor
    /\ geometry = NoGeometry

Init == InitGrid({PrefixDir}, SeqsUpTo(SyncSuffixes, MaxViews), {DefaultColumns})

\* The synchronized zoom and pan of the grid.
Next ==
    \/ \E i \in 1..MaxViews : Wheel(i)
    \/ \E i \in 1..MaxViews : Drag(i)

Spec == Init /\ [][Next]_vars

\* The pointer over the grid: pixel inspection and the status bar.
InitInspect ==
    InitGrid({PrefixDir}, SeqsUpTo(InspectSuffixes, MaxInspected), {DefaultColumns})

NextInspect ==
    \/ \E i \in 1..MaxInspected : MouseMove(i)
    \/ \E i \in 1..MaxInspected : Enter(i)
    \/ \E i \in 1..MaxInspected : Leave(i)

SpecInspect == InitInspect /\ [][NextInspect]_vars

\* The pointer over the grid: Qt sends a view the enter event when the
\* pointer comes in, move events while it is inside, and the leave event
\* when it goes out, so the pointer is inside views[i] after an enter or a
\* move event of views[i].
PointerInside(i) == ev.op \in {"enter", "move"} /\ ev.view = i
PointerOutside == ev.op \notin {"enter", "move"}

PointerEnters(i) == PointerOutside /\ Enter(i)
PointerMoves(i) == PointerInside(i) /\ MouseMove(i)
PointerLeaves(i) == PointerInside(i) /\ Leave(i)

NextHover ==
    \/ \E i \in 1..MaxInspected : PointerEnters(i)
    \/ \E i \in 1..MaxInspected : PointerMoves(i)
    \/ \E i \in 1..MaxInspected : PointerLeaves(i)

SpecHover == InitInspect /\ [][NextHover]_vars

\* The grid over lists of every kind of suffix, and its reloading.
PopulateSuffixes ==
    {<<"a", ".png">>, <<"c", ".png">>,
     <<"..", "/", "s", ".png">>, <<"..", "/", "n", ".png">>,
     <<"/", "s", ".png">>, <<"/", "..", "/", "..", "/", "s", ".png">>,
     <<" ", "a", ".png">>, <<"a", ".png", " ", "NL">>}

\* args.columns: argparse's type=int takes every integer.
ColumnArgs == {0 - MaxColumns} \cup (0..MaxColumns)

InitPopulate ==
    InitGrid({PrefixDir, PrefixStr}, SeqsUpTo(PopulateSuffixes, MaxEntries),
             ColumnArgs)

\* The lines of the suffix file, each with its line end.
SuffixLines ==
    {<<" ", "a", ".png", " ", "NL">>, <<"NL">>, <<"l", ".png", "NL">>}
SuffixFiles ==
    {[is_file |-> TRUE, readable |-> TRUE, lines |-> lines] :
        lines \in SeqsUpTo(SuffixLines, MaxEntries)}
    \cup {[is_file |-> isf, readable |-> FALSE, lines |-> <<>>] : isf \in BOOLEAN}

\* islice(f, MAX_IMAGES)
MAX_IMAGES == 30
\* IsliceAll: a read that takes every line of the file.
IsliceAll(lines, n) == lines
Islice(lines, n) == SubSeq(lines, 1, IF Len(lines) < n THEN Len(lines) ELSE n)

\* [line.strip() for line in lines if line.strip()]
RECURSIVE StrippedLines(_)
StrippedLines(lines) ==
    IF lines = <<>> THEN <<>>
    ELSE IF strip(Head(lines)) = <<>> THEN StrippedLines(Tail(lines))
    ELSE <<strip(Head(lines))>> \o StrippedLines(Tail(lines))

\* [line.strip() for line in islice(f, n) if line.strip()]
ReadSuffixes(lines, n) == StrippedLines(Islice(lines, n))

\* f.readline() after islice(f, n) returns a line.
MoreLines(lines, n) == Len(lines) > n

\* The lines that open() and the read of the suffix file give;
\* LinesOnDisk: the lines of the file whether it can be opened or not.
LinesOnDisk(file) == file.lines
LinesRead(file) == IF file.is_file /\ file.readable THEN file.lines ELSE <<>>

\* ImageGrid._reload_grid, called by the handler `op` after it has given
\* `warnings`; `file` is the suffix file as the handler finds it and
\* `selected` the path chosen in the handler's file dialog, if it has one.
\* An exception of _populate_grid ends the handler before the page is set.
reload_grid(op, prefix, file, loop_raises, warnings, selected) ==
    /\ pre_path' = prefix
    /\ suffix_file' = file
    /\ list_of_suffix' = ReadSuffixes(LinesRead(file), MAX_IMAGES)
    /\ status' = IF ~file.is_file THEN status
                 ELSE IF file.readable THEN ReloadedMessage
                 ELSE ReadErrorMessage
    /\ \E populated \in {PopulateGrid(prefix, list_of_suffix', columns, views,
                                      grid_layout, loop_raises)} :
           /\ views' = populated.views
           /\ grid_layout' = populated.layout
           /\ page' = IF populated.raised THEN page
                      ELSE IF list_of_suffix' # <<>> THEN "grid" ELSE "welcome"
           /\ ev' = [Event(op, 0, World(populated.views), NoPos)
                         EXCEPT !.deleted = Len(views),
                                !.lines = LinesRead(file),
                                !.suffixes = list_of_suffix',
                                !.warnings = warnings,
                                !.selected = selected,
                                !.reloads = 1,
                                !.raised = populated.raised]

\* A reload of the grid from a suffix file that a handler has left.
ReloadGrid ==
    \E file \in SuffixFiles, loop_raises \in BOOLEAN :
        /\ reload_grid("reload", pre_path, file, loop_raises, <<>>, <<>>)
        /\ UNCHANGED <<probe, columns, editor, geometry>>

NextPopulate == ReloadGrid

SpecPopulate == InitPopulate /\ [][NextPopulate]_vars

\* ------------------------------------------------- a session of the program
\* The suffix files of a session: short ones, and ones around MAX_IMAGES
\* lines.
Filler == <<"a", ".png", "NL">>
Blank == <<"NL">>
Repeat(line, n) == [k \in 1..n |-> line]
SessionLines ==
    {<<Blank>>, <<Blank, <<" ", "b", ".png", " ", "NL">>, Filler>>,
     << <<"l", ".png", "NL">>, Filler>>,
     Repeat(Filler, MAX_IMAGES + 1),
     <<Blank>> \o Repeat(Filler, MAX_IMAGES)}
\* A file that open() raises PermissionError for.
UnreadableFile == [is_file |-> TRUE, readable |-> FALSE, lines |-> <<Filler>>]
ReadableFile(lines) == [is_file |-> TRUE, readable |-> TRUE, lines |-> lines]
SessionFiles == {ReadableFile(lines) : lines \in SessionLines} \cup {NoSuffixFile, UnreadableFile}
\* The suffix files beside the images that are opened as a dataset.
DatasetFiles ==
    {NoSuffixFile, UnreadableFile, ReadableFile(<<Blank>>),
     ReadableFile(<<Blank, <<" ", "b", ".png", " ", "NL">>, Filler>>),
     ReadableFile(<< <<".png", "NL">>, <<"l", ".png", "NL">>, Filler>>),
     ReadableFile(Repeat(Filler, MAX_IMAGES + 1))}

\* The messages that the loaders and the editor give.
TruncationWarning == "more than MAX_IMAGES lines"
ReadWarning == "could not read suffix file"
TruncationOf(file) ==
    IF MoreLines(LinesRead(file), MAX_IMAGES) THEN <<TruncationWarning>> ELSE <<>>

\* args.image_prefix; the empty string is no prefix.
NoPrefix == <<>>
CliPrefixes == {NoPrefix, PrefixStr}

\* The program before main() runs: no window.
InitSession ==
    /\ pre_path = NoPrefix
    /\ list_of_suffix = <<>>
    /\ columns = DefaultColumns
    /\ views = <<>>
    /\ grid_layout = <<>>
    /\ page = "none"
    /\ status = ReadyMessage
    /\ ev = Event("start", 0, World(<<>>), NoPos)
    /\ probe = NoProbe
    /\ suffix_file = NoSuffixFile
    /\ editor = NoEditor
    /\ geometry = NoGeometry

\* cli.main: the suffix file is read when a prefix is given; ImageGrid is
\* constructed (initUI populates the grid for a non-empty list only) and
\* app.exec() is called. An exception of the constructor ends the program
\* before the event loop.
Main ==
    /\ page = "none"
    /\ ev.op = "start"
    /\ \E prefix \in CliPrefixes, file \in SessionFiles, loop_raises \in BOOLEAN :
       \E read \in {prefix # NoPrefix /\ file.is_file} :
       \E suffixes \in {IF read THEN ReadSuffixes(LinesRead(file), MAX_IMAGES) ELSE <<>>} :
       \E populated \in {IF suffixes = <<>>
                         THEN [views |-> <<>>, layout |-> <<>>, raised |-> FALSE]
                         ELSE PopulateGrid(prefix, suffixes, DefaultColumns,
                                           <<>>, <<>>, loop_raises)} :
           /\ pre_path' = IF populated.raised THEN NoPrefix ELSE prefix
           /\ list_of_suffix' = IF populated.raised THEN <<>> ELSE suffixes
           /\ views' = IF populated.raised THEN <<>> ELSE populated.views
           /\ grid_layout' = IF populated.raised THEN <<>> ELSE populated.layout
           /\ page' = IF populated.raised THEN "none"
                      ELSE IF suffixes # <<>> THEN "grid" ELSE "welcome"
           /\ suffix_file' = file
           /\ ev' = [Event("main", 0, World(views'), NoPos)
                         EXCEPT !.lines = IF read THEN LinesRead(file) ELSE <<>>,
                                !.suffixes = suffixes,
                                !.prefix = prefix,
                                !.warnings = IF ~read THEN <<>>
                                             ELSE IF ~file.readable THEN <<ReadWarning>>
                                             ELSE TruncationOf(file),
                                !.exec = ~populated.raised]
           /\ UNCHANGED <<status, probe, columns, editor, geometry>>

\* The main window is shown and no modal dialog is open.
WindowIdle == page \in {"welcome", "grid"} /\ ~editor.open

\* QFileDialog.getOpenFileName: the path chosen, empty when cancelled.
NoSelection == <<>>
Selections ==
    {NoSelection, <<"/", "d", "/", "p", "a", ".png">>, <<"/", "d", "/", "l", ".png">>,
     <<"/", "d", "/", "b", ".png">>}

\* name.endswith(suffix)
EndsWith(name, suffix) ==
    /\ Len(suffix) <= Len(name)
    /\ SubSeq(name, Len(name) - Len(suffix) + 1, Len(name)) = suffix

\* AnySuffix: the first suffix of the list, whether the name ends with it
\* or not. FirstMatch: the first suffix of the list that the name ends with.
AnySuffix(name, suffixes) == IF suffixes = <<>> THEN 0 ELSE 1
FirstMatch(name, suffixes) ==
    LET matching == {k \in 1..Len(suffixes) : EndsWith(name, suffixes[k])}
    IN IF matching = {} THEN 0 ELSE CHOOSE k \in matching : \A j \in matching : k <= j

\* The longest suffix of the list that the selected file's name ends with;
\* the first one among equally long ones. Zero when there is none.
BestMatch(name, suffixes) ==
    LET matching == {k \in 1..Len(suffixes) : EndsWith(name, suffixes[k])}
    IN IF matching = {} THEN 0
       ELSE CHOOSE k \in matching :
                \A j \in matching : \/ Len(suffixes[j]) < Len(suffixes[k])
                                    \/ Len(suffixes[j]) = Len(suffixes[k]) /\ k <= j

\* str(selected_file.parent / selected_file.name[:prefix_len])
NewPrefix(selected, suffix) ==
    LET name == PathName(selected)
        parent == SubSeq(selected, 1, Len(selected) - Len(name) - 1)
    IN JoinPath(parent, SubSeq(name, 1, Len(name) - Len(suffix)))

\* ImageGrid._prompt_open_dataset; `file` is igridvu_suffix.txt beside the
\* selected file: it is looked at when a file was selected, and the grid is
\* populated, on one Python version or another, when the prefix was found.
OpenDataset ==
    /\ WindowIdle
    /\ \E selected \in Selections :
       \E file \in IF selected = NoSelection THEN {NoSuffixFile} ELSE DatasetFiles :
       \E suffixes \in {ReadSuffixes(LinesRead(file), MAX_IMAGES)} :
       \E best \in {BestMatch(PathName(selected), suffixes)} :
       \E loop_raises \in IF best > 0 THEN BOOLEAN ELSE {FALSE} :
           IF selected # NoSelection /\ file.is_file /\ file.readable /\ best > 0
           THEN /\ reload_grid("open", NewPrefix(selected, suffixes[best]), file,
                               loop_raises, TruncationOf(file), selected)
                /\ UNCHANGED <<probe, columns, editor, geometry>>
           ELSE /\ ev' = [Event("open", 0, World(views), NoPos)
                              EXCEPT !.selected = selected,
                                     !.lines = IF selected = NoSelection THEN <<>>
                                               ELSE LinesRead(file),
                                     !.suffixes = IF selected = NoSelection THEN <<>>
                                                  ELSE suffixes,
                                     !.warnings =
                                         IF selected = NoSelection THEN <<>>
                                         ELSE IF ~file.is_file
                                         THEN <<"Suffix File Not Found">>
                                         ELSE IF ~file.readable
                                         THEN <<"Error Reading File">>
                                         ELSE TruncationOf(file) \o
                                              <<IF suffixes = <<>>
                                                THEN "Empty Suffix File"
                                                ELSE "Could Not Deduce Prefix">>]
                /\ UNCHANGED <<pre_path, list_of_suffix, views, page, status, probe,
                               columns, grid_layout, suffix_file, editor, geometry>>

\* SuffixEditorDialog._update_button_states: the state of the Add button
\* for a list of `items`; AddEnabledAlways: a button that is never disabled.
AddEnabledAlways(items) == TRUE
AddEnabled(items) == Len(items) < MAX_IMAGES

\* ImageGrid._open_suffix_editor up to dialog.exec(): the dialog is
\* constructed, SuffixEditorDialog._load_suffixes fills its list and the
\* constructor sets the buttons.
OpenEditor ==
    /\ WindowIdle
    /\ \E items \in {ReadSuffixes(LinesRead(suffix_file), MAX_IMAGES)} :
           /\ editor' = [editor EXCEPT !.open = TRUE, !.items = items,
                                       !.add_enabled = AddEnabled(items)]
           /\ ev' = [Event("edit", 0, World(views), NoPos)
                         EXCEPT !.lines = LinesRead(suffix_file),
                                !.suffixes = items,
                                !.warnings =
                                    IF ~suffix_file.is_file THEN <<>>
                                    ELSE IF ~suffix_file.readable
                                    THEN <<"Error Loading Suffixes">>
                                    ELSE TruncationOf(suffix_file)]
    /\ UNCHANGED <<pre_path, list_of_suffix, views, page, status, probe,
                   columns, grid_layout, suffix_file, geometry>>

\* The changes made with the suffix editor in a session are bounded.
MaxEdits == 1

\* SuffixEditorDialog._add_suffix: the new item is being edited.
AddSuffix ==
    /\ editor.open
    /\ ~editor.editing
    /\ IF Len(editor.items) >= MAX_IMAGES
       THEN /\ ev' = [Event("add", 0, World(views), NoPos)
                          EXCEPT !.warnings = <<"Limit Reached">>]
            /\ UNCHANGED editor
       ELSE /\ editor.edits < MaxEdits
            /\ \E items \in {Append(editor.items, <<"new_suffix">>)} :
                   editor' = [editor EXCEPT !.items = items,
                                            !.editing = TRUE,
                                            !.edits = @ + 1,
                                            !.add_enabled = AddEnabled(items)]
            /\ ev' = Event("add", 0, World(views), NoPos)
    /\ UNCHANGED <<pre_path, list_of_suffix, views, page, status, probe,
                   columns, grid_layout, suffix_file, geometry>>

\* The list without its k-th item: list_widget.takeItem(k).
TakeItem(items, k) == SubSeq(items, 1, k - 1) \o SubSeq(items, k + 1, Len(items))

\* SuffixEditorDialog._remove_suffix with the last item selected; the
\* model's rowsRemoved signal runs _update_button_states.
RemoveSuffix ==
    /\ editor.open
    /\ ~editor.editing
    /\ editor.items # <<>>
    /\ editor.edits < MaxEdits
    /\ \E items \in {TakeItem(editor.items, Len(editor.items))} :
           editor' = [editor EXCEPT !.items = items, !.edits = @ + 1,
                                    !.add_enabled = AddEnabled(items)]
    /\ ev' = Event("remove", 0, World(views), NoPos)
    /\ UNCHANGED <<pre_path, list_of_suffix, views, page, status, probe,
                   columns, grid_layout, suffix_file, geometry>>

\* SuffixEditorDialog._on_item_changed for the item that was added: the user
\* has typed `text`.
ItemTexts == {<<" ", "c", ".png">>, <<" ">>, <<"c", ".png", "NL", "e", ".png">>}
ItemChanged ==
    /\ editor.open
    /\ editor.editing
    /\ \E text \in ItemTexts :
       \E items \in {IF strip(text) = <<>>
                     THEN TakeItem(editor.items, Len(editor.items))
                     ELSE [editor.items EXCEPT ![Len(editor.items)] = strip(text)]} :
           editor' = [editor EXCEPT !.items = items,
                                    !.editing = FALSE,
                                    !.add_enabled = AddEnabled(items)]
    /\ ev' = Event("change", 0, World(views), NoPos)
    /\ UNCHANGED <<pre_path, list_of_suffix, views, page, status, probe,
                   columns, grid_layout, suffix_file, geometry>>

\* QDialog.reject: dialog.exec() returns false.
CancelEditor ==
    /\ editor.open
    /\ editor' = [NoEditor EXCEPT !.edits = editor.edits]
    /\ ev' = Event("cancel", 0, World(views), NoPos)
    /\ UNCHANGED <<pre_path, list_of_suffix, views, page, status, probe,
                   columns, grid_layout, suffix_file, geometry>>

\* '\n'.join(suffixes)
RECURSIVE JoinLines(_)
JoinLines(items) ==
    IF items = <<>> THEN <<>>
    ELSE IF Len(items) = 1 THEN Head(items)
    ELSE Head(items) \o <<"NL">> \o JoinLines(Tail(items))

\* The text that _save_and_accept writes: the joined suffixes, and a final
\* newline when there is a suffix.
WrittenText(items) ==
    JoinLines(items) \o (IF items # <<>> THEN <<"NL">> ELSE <<>>)

\* The lines that iterating over a text file gives: each one ends with its
\* newline, the last one only when the text does. `cur` is the line begun.
RECURSIVE FileLines(_, _)
FileLines(text, cur) ==
    IF text = <<>> THEN (IF cur = <<>> THEN <<>> ELSE <<cur>>)
    ELSE IF Head(text) = "NL"
         THEN <<Append(cur, "NL")>> \o FileLines(Tail(text), <<>>)
         ELSE FileLines(Tail(text), Append(cur, Head(text)))

\* The file that _save_and_accept leaves.
WrittenFile(items) == ReadableFile(FileLines(WrittenText(items), <<>>))

\* SuffixEditorDialog._save_and_accept, and the rest of _open_suffix_editor
\* when the dialog was accepted; `writable` is false when open() raises.
SaveEditor ==
    /\ editor.open
    /\ ~editor.editing
    /\ \E writable \in BOOLEAN :
       \E loop_raises \in IF writable THEN BOOLEAN ELSE {FALSE} :
           IF writable
           THEN /\ editor' = [NoEditor EXCEPT !.edits = editor.edits]
                /\ reload_grid("save", pre_path, WrittenFile(editor.items),
                               loop_raises, <<>>, <<>>)
                /\ UNCHANGED <<probe, columns, geometry>>
           ELSE /\ ev' = [Event("save", 0, World(views), NoPos)
                              EXCEPT !.warnings = <<"Error Saving Suffixes">>]
                /\ UNCHANGED <<pre_path, list_of_suffix, views, page, status, probe,
                               columns, grid_layout, suffix_file, editor, geometry>>

\* create_examples.SUFFIXES and the dataset that create_example_dataset
\* writes into the chosen directory.
SUFFIXES ==
    << <<"geometry", ".png">>, <<"texture", ".png">>, <<"diffuse", ".png">>,
       <<"specular", ".png">>, <<"fresnel", ".png">>, <<"shadow", ".png">> >>
ExamplePrefix == <<"/", "d", "/", "testscene", "/", "scene1_">>

\* ImageGrid._prompt_create_examples; `created` is the success of
\* create_example_dataset, `load` the answer to the question that follows.
CreateExamples ==
    /\ WindowIdle
    /\ \E confirmed \in BOOLEAN :
       \E created \in IF confirmed THEN BOOLEAN ELSE {FALSE} :
       \E load \in IF created THEN BOOLEAN ELSE {FALSE} :
       \E loop_raises \in IF load THEN BOOLEAN ELSE {FALSE} :
           IF confirmed /\ created /\ load
           THEN /\ reload_grid("examples", ExamplePrefix, WrittenFile(SUFFIXES),
                               loop_raises, <<>>, <<>>)
                /\ UNCHANGED <<probe, columns, editor, geometry>>
           ELSE /\ ev' = [Event("examples", 0, World(views), NoPos)
                              EXCEPT !.warnings = IF confirmed /\ ~created
                                                  THEN <<"Error">> ELSE <<>>]
                /\ UNCHANGED <<pre_path, list_of_suffix, views, page, status, probe,
                               columns, grid_layout, suffix_file, editor, geometry>>

NextSession ==
    \/ Main
    \/ OpenDataset
    \/ OpenEditor
    \/ AddSuffix
    \/ RemoveSuffix
    \/ ItemChanged
    \/ CancelEditor
    \/ SaveEditor
    \/ CreateExamples

SpecSession == InitSession /\ [][NextSession]_vars

\* A ZoomableView built on its own, as a caller of the class may build it,
\* over every answer the file system can give for its path.
LoadPaths == {<<>>, <<"/", "d", "/", "a", ".png">>}
LoadImages == {NoImage, Image1}
LoadErrors == {NoError, "Path traversal\nattempt"}
FileSizes == {StatError, 1, MAX_FILE_SIZE_BYTES, MAX_FILE_SIZE_BYTES + 1}
ImageDimensions == {1, MAX_IMAGE_DIMENSION, MAX_IMAGE_DIMENSION + 1}
FileStates ==
    {FileState(isf, rd, size, can, width, height, img) :
        isf \in BOOLEAN, rd \in BOOLEAN, size \in FileSizes, can \in BOOLEAN,
        width \in ImageDimensions, height \in ImageDimensions,
        img \in {NullImage, Image1}}

InitLoad ==
    /\ probe \in [path : LoadPaths, image : LoadImages, error : LoadErrors,
                  file : FileStates]
    /\ pre_path = <<>>
    /\ list_of_suffix = <<>>
    /\ views = <<>>
    /\ columns = DefaultColumns
    /\ grid_layout = <<>>
    /\ suffix_file = NoSuffixFile
    /\ editor = NoEditor
    /\ geometry = NoGeometry
    /\ page = "none"
    /\ status = ReadyMessage
    /\ ev = Event("init", 0, World(<<>>), NoPos)

\* ZoomableView(label_text, img_path, image, error)
Construct ==
    /\ views = <<>>
    /\ views' = <<ZoomableView(PathStem(probe.path), probe.path, probe.image,
                               probe.error, probe.file)>>
    /\ ev' = Event("construct", 1, World(views'), NoPos)
    /\ UNCHANGED <<pre_path, list_of_suffix, page, status, probe, columns, grid_layout, suffix_file, editor, geometry>>

NextLoad == Construct

SpecLoad == InitLoad /\ [][NextLoad]_vars

\* ------------------------------------------------- the life of one view
\* A view is constructed from any arguments and then receives events and
\* calls.
ViewImages == {NoImage, NullImage, Image1, GrayImage(7, 2, 2, TRUE)}
ViewFiles == {CorruptFile, GoodFile(Image3)}
InitView ==
    /\ probe \in [path : LoadPaths, image : ViewImages, error : LoadErrors,
                  file : ViewFiles]
    /\ pre_path = <<>>
    /\ list_of_suffix = <<>>
    /\ views = <<>>
    /\ columns = DefaultColumns
    /\ grid_layout = <<>>
    /\ suffix_file = NoSuffixFile
    /\ editor = NoEditor
    /\ geometry = NoGeometry
    /\ page = "none"
    /\ status = ReadyMessage
    /\ ev = Event("init", 0, World(<<>>), NoPos)

\* The rectangles passed to setViewRect.
ViewRects ==
    [zoom : {-MaxZoom, MaxZoom}, hbar : ScrollValues, vbar : {0}, null : {FALSE}]
    \cup [zoom : {0}, hbar : {0}, vbar : {0}, null : {TRUE}]

\* A call of ZoomableView.setViewRect on views[i].
CallSetViewRect(i) ==
    /\ i <= Len(views)
    /\ \E rect \in ViewRects :
       \E w \in {SetViewRect(World(views), i, rect, 0, 0)} :
           /\ views' = w.views
           /\ ev' = Event("setViewRect", i, w, NoPos)
    /\ UNCHANGED <<pre_path, list_of_suffix, page, status, probe, columns,
                   grid_layout, suffix_file, editor, geometry>>

\* A call of ZoomableView.view_channel on views[i].
ViewChannel(i) ==
    /\ i <= Len(views)
    /\ \E channel_name \in ContextChannels :
       \E done \in {view_channel(views[i], channel_name)} :
           /\ views' = [views EXCEPT ![i] = done.view]
           /\ ev' = [Event("view_channel", i, World(views'), NoPos)
                         EXCEPT !.raised = done.raised, !.channel = channel_name]
    /\ UNCHANGED <<pre_path, list_of_suffix, page, status, probe, columns,
                   grid_layout, suffix_file, editor, geometry>>

\* A call of ZoomableView.restore_original on views[i].
RestoreOriginal(i) ==
    /\ i <= Len(views)
    /\ \E done \in {restore_original(views[i])} :
           /\ views' = [views EXCEPT ![i] = done.view]
           /\ ev' = [Event("restore_original", i, World(views'), NoPos)
                         EXCEPT !.raised = done.raised]
    /\ UNCHANGED <<pre_path, list_of_suffix, page, status, probe, columns,
                   grid_layout, suffix_file, editor, geometry>>

NextView ==
    \/ Construct
    \/ Wheel(1)
    \/ Drag(1)
    \/ CallSetViewRect(1)
    \/ ViewChannel(1)
    \/ RestoreOriginal(1)

SpecView == InitView /\ [][NextView]_vars

\* ------------------------------------------- the synchronized grid: claims
\* The setViewRect calls that the k-th signal of the event caused, in order.
CallsOf(k) == SelectSeq(ev.calls, LAMBDA c : c.cause = k)

\* The views of the grid other than views[i], in the order of the list.
OthersOf(i) == SelectSeq([j \in 1..Len(views) |-> j], LAMBDA j : j # i)

\* C1: when a view emits viewRectChanged(R) in a grid of N views, setViewRect(R)
\* is called on each of the other N-1 views exactly once (and not on the
\* sender) before the emission returns, and those calls cause no further
\* viewRectChanged emission: every emission of the event is the handler's own.
C1_SyncFanOut ==
    /\ ~ev.overflow
    /\ \A k \in 1..Len(ev.emits) :
           /\ ev.emits[k].depth = 0
           /\ [n \in 1..Len(CallsOf(k)) |-> CallsOf(k)[n].view] = OthersOf(ev.emits[k].view)
           /\ \A n \in 1..Len(CallsOf(k)) : CallsOf(k)[n].rect = ev.emits[k].rect

\* An emission in a grid of MaxViews views, each of them showing an image.
C1_Witness ==
    /\ Len(views) = MaxViews
    /\ \A j \in 1..Len(views) : has_image(views[j])
    /\ Len(ev.emits) >= 1
    /\ Len(CallsOf(1)) = MaxViews - 1
    /\ \E n \in 1..Len(ev.calls) : ev.calls[n].moved

\* C2: a setViewRect call never makes viewRectChanged be emitted, though it
\* moves the scroll bars of the view: no signal is emitted while it runs.
C2_SetViewRectSilent ==
    \A n \in 1..Len(ev.calls) : ev.calls[n].emitted = 0

\* A setViewRect call that moved a scroll bar of a view with an image, so that
\* the slot connected to the bar ran with the signals blocked.
C2_Witness ==
    /\ \E n \in 1..Len(ev.calls) :
           /\ ev.calls[n].moved
           /\ has_image(views[ev.calls[n].view])
    /\ \E n \in 1..Len(ev.slots) : ev.slots[n].blocked

\* C3: a wheel event on a view with an image emits viewRectChanged exactly
\* once, after the scaling, with the rectangle the view then shows; the slot
\* invocations that the scaling triggers through the scroll bars emit nothing,
\* as _is_handling_wheel is set while they run.
C3_WheelEmitsOnce ==
    (ev.op = "wheel" /\ has_image(views[ev.view])) =>
        /\ Len(ev.emits) = 1
        /\ ev.emits[1] = [view |-> ev.view, rect |-> ViewRect(views[ev.view]), depth |-> 0]
        /\ \A n \in 1..Len(ev.slots) :
               ev.slots[n].view = ev.view => ev.slots[n].handling

\* A wheel event whose scaling moved a scroll bar of the view.
C3_Witness ==
    /\ ev.op = "wheel"
    /\ has_image(views[ev.view])
    /\ \E n \in 1..Len(ev.slots) : ev.slots[n].view = ev.view /\ ev.slots[n].handling

\* ------------------------------------------------- loading a view: claims
\* A view has been built from a path: no image and no error were passed in.
BuiltFromPath ==
    /\ views # <<>>
    /\ probe.path # <<>>
    /\ probe.image = NoImage
    /\ probe.error = NoError

\* The load checks in the order claimed, each with what makes it fail and
\* the message of its failure. The size check fails as well when the size
\* cannot be read; its message is then "Cannot access".
LoadChecks(file) ==
    << [fails |-> ~file.is_file, msg |-> "Not found"],
       [fails |-> ~file.readable, msg |-> "Permission\ndenied"],
       [fails |-> file.st_size = StatError \/ file.st_size > MAX_FILE_SIZE_BYTES,
        msg |-> IF file.st_size = StatError THEN "Cannot access" ELSE "File too large"],
       [fails |-> ~file.canRead, msg |-> "Unrecognized\nformat"],
       [fails |-> file.width > MAX_IMAGE_DIMENSION \/ file.height > MAX_IMAGE_DIMENSION,
        msg |-> "Dimensions too large"],
       [fails |-> file.image.kind # "image", msg |-> "Cannot load\n(Corrupted?)"] >>

FailingChecks(file) == {k \in 1..Len(LoadChecks(file)) : LoadChecks(file)[k].fails}

FirstFailing(file) ==
    CHOOSE k \in FailingChecks(file) : \A m \in FailingChecks(file) : k <= m

\* C5: a view built from a path runs the load checks in the order not a file,
\* not readable, too large, unrecognized format, dimensions too large, decode
\* failed, and shows the error of the first failing check and no other,
\* whichever later checks would fail too; with no failing check it shows none.
C5_FirstFailingCheckShown ==
    BuiltFromPath =>
        IF FailingChecks(probe.file) = {} THEN views[1].scene_text = <<>>
        ELSE views[1].scene_text =
                 << [msg |-> LoadChecks(probe.file)[FirstFailing(probe.file)].msg,
                     filename |-> PathName(probe.path)] >>

\* A view built from a file that is both unreadable and too large.
C5_Witness ==
    /\ BuiltFromPath
    /\ {2, 3, 5} \subseteq FailingChecks(probe.file)
    /\ FirstFailing(probe.file) = 2
    /\ probe.file.st_size > MAX_FILE_SIZE_BYTES
    /\ Len(views[1].scene_text) = 1

\* C6: a view built from a path with no error passed in has an image if and
\* only if the path is a regular file, readable, of a size of at most
\* MAX_FILE_SIZE_BYTES, of a recognized format, of a width and a height of at
\* most MAX_IMAGE_DIMENSION each, and decodes to a non-null image.
C6_HasImageIff ==
    BuiltFromPath =>
        (has_image(views[1]) <=>
            /\ probe.file.is_file
            /\ probe.file.readable
            /\ probe.file.st_size # StatError
            /\ probe.file.st_size <= MAX_FILE_SIZE_BYTES
            /\ probe.file.canRead
            /\ probe.file.width <= MAX_IMAGE_DIMENSION
            /\ probe.file.height <= MAX_IMAGE_DIMENSION
            /\ probe.file.image.kind = "image")

\* A file of exactly the largest size holding an image of exactly the largest
\* width and height, accepted.
C6_Witness ==
    /\ BuiltFromPath
    /\ probe.file.st_size = MAX_FILE_SIZE_BYTES
    /\ probe.file.width = MAX_IMAGE_DIMENSION
    /\ probe.file.height = MAX_IMAGE_DIMENSION
    /\ has_image(views[1])

\* --------------------------------------------- populating the grid: claims
\* The full path of the i-th entry and the directory the prefix stands for.
EntryPath(i) == FullPath(pre_path, rstrip(list_of_suffix[i]))
PrefixBase ==
    IF IsDir(pre_path) THEN Resolve(pre_path) ELSE Resolve(pre_path \o <<"/", "..">>)

\* The place `at` lies in the directory `base` or below it.
Under(at, base) ==
    /\ Len(at) >= Len(base)
    /\ \A k \in 1..Len(base) : at[k] = base[k]

\* The view shows the path-traversal error and nothing was decoded for it.
TraversalRejected(i) ==
    /\ views[i].scene_text =
           << [msg |-> "Path traversal\nattempt", filename |-> PathName(EntryPath(i))] >>
    /\ ~has_image(views[i])
    /\ views[i].image = NoImage

\* C4: a suffix whose resolved path lies outside the base directory (the
\* prefix directory, or the parent of a prefix that is no directory) yields a
\* view with the path-traversal error and no image, whether the target exists
\* or not; and every file whose decoding was attempted lies in the base
\* directory or below it.
C4_TraversalBlocked ==
    \A i \in 1..Len(views) :
        /\ ~Under(Resolve(EntryPath(i)), PrefixBase) => TraversalRejected(i)
        /\ views[i].image # NoImage =>
               Under(OSWalk(Parts(EntryPath(i)), <<>>).at, PrefixBase)

\* A grid with a suffix that escapes to a file that exists and one that
\* escapes to a file that does not.
C4_Witness ==
    \E i, j \in 1..Len(views) :
        /\ ~Under(Resolve(EntryPath(i)), PrefixBase)
        /\ ~Under(Resolve(EntryPath(j)), PrefixBase)
        /\ Stat(EntryPath(i)).is_file
        /\ ~Stat(EntryPath(j)).is_file
        /\ TraversalRejected(i)
        /\ TraversalRejected(j)

\* C10: after construction and after every repopulation the views list holds
\* exactly one view per suffix, in the order of the suffix list: views[i] is
\* built from the i-th suffix and labelled with its stem, whichever entries
\* fail to load, and no view of an earlier population is left in the list.
C10_OneViewPerSuffix ==
    /\ Len(views) = Len(list_of_suffix)
    /\ \A i \in 1..Len(views) :
           /\ views[i].img_path = EntryPath(i)
           /\ views[i].label_text = PathStem(rstrip(list_of_suffix[i]))

\* ------------------------------------------------ pixel inspection: claims
\* The pixel column or row that holds a coordinate given in halves.
Floor(halves) == halves \div 2

\* The scene position lies in [0, width) x [0, height) of the view's image.
InsideImage(view, scene_pos) ==
    /\ has_image(view)
    /\ 0 <= scene_pos[1] /\ scene_pos[1] < 2 * view.image.w
    /\ 0 <= scene_pos[2] /\ scene_pos[2] < 2 * view.image.h

\* The colour claimed for a position: that of pixel (x, y) for a position in
\* [x, x+1) x [y, y+1) of the image, none outside the image.
ClaimedColor(view, scene_pos) ==
    IF InsideImage(view, scene_pos)
    THEN pixelColor(view.image, Floor(scene_pos[1]), Floor(scene_pos[2]))
    ELSE NoColor

\* The pointer moved over a view with an image: the last event.
MovedOverImage == ev.op = "move" /\ has_image(views[ev.view])

\* C7: get_color_at returns the colour of pixel (x, y) for every position in
\* [x, x+1) x [y, y+1) with 0 <= x < width and 0 <= y < height, and None for
\* every position outside [0, width) x [0, height), those strictly between -1
\* and 0 on an axis included. (Violated: int() rounds -0.5 to 0, not to -1.)
C7_ColorAtPointQuery ==
    MovedOverImage =>
        \A j \in 1..Len(views) :
            get_color_at(views[j], ev.pos) = ClaimedColor(views[j], ev.pos)

\* The readout claimed for views[j]: the integer part of the position, then
\* the colour (with its alpha for an image with an alpha channel) or the
\* placeholder.
ClaimedReadout(j) ==
    <<PyInt(ev.pos[1]), PyInt(ev.pos[2])>> \o
        (IF ~InsideImage(views[j], ev.pos) THEN OutOfBounds
         ELSE IF views[j].image.alpha THEN ClaimedColor(views[j], ev.pos)
         ELSE SubSeq(ClaimedColor(views[j], ev.pos), 1, 3))

\* C8: on a pointer move at p over a view with an image, every view of the
\* grid, that view included, gets exactly one readout, computed from its own
\* image at p: the colour when p falls inside its image, the placeholder
\* otherwise, after the integer part of p. (Violated through C7: at -0.5 the
\* colour of column or row 0 is shown where the placeholder is claimed.)
C8_OneReadoutPerView ==
    MovedOverImage =>
        /\ Len(ev.writes) = Len(views)
        /\ \A j \in 1..Len(views) :
               /\ ev.writes[j] = [view |-> j, text |-> ClaimedReadout(j)]
               /\ views[j].pixel_info = ClaimedReadout(j)

\* The position of the move is out of bounds for the view the pointer is on:
\* get_color_at returns None for it.
SourceOutOfBounds ==
    /\ MovedOverImage
    /\ get_color_at(views[ev.view], ev.pos) = NoColor

C11_GridPlacement ==
    columns >= 1 =>
        /\ Len(grid_layout) = Len(views)
        /\ \A k \in 1..Len(grid_layout) :
               /\ grid_layout[k].row * columns + grid_layout[k].col = k - 1
               /\ 0 <= grid_layout[k].col
               /\ grid_layout[k].col < columns

\* A grid whose entries wrap into a second row after a reload.
C11_Witness ==
    /\ columns >= 1
    /\ ev.op = "reload"
    /\ \E k \in 1..Len(grid_layout) : grid_layout[k].row >= 1

\* ----------------------------------------------- path construction: claims
\* The path claimed for a suffix as given: the prefix joined with it as a
\* directory path for a prefix that is a directory, prefix + suffix otherwise,
\* with the trailing whitespace of the suffix removed and nothing else.
ClaimedPath(suffix) ==
    IF IsDir(pre_path) THEN JoinPath(pre_path, rstrip(suffix))
    ELSE pre_path \o rstrip(suffix)

\* The suffixes as given: the non-blank lines read from the suffix file by
\* the last reload, else the list passed to ImageGrid.
GivenSuffixes ==
    IF ev.op = "reload"
    THEN SelectSeq(ev.lines, LAMBDA line : rstrip(line) # <<>>)
    ELSE list_of_suffix

\* C12: the image path of an entry is the prefix joined with the suffix for a
\* directory prefix and prefix + suffix otherwise, with only the trailing
\* whitespace and newline of the suffix removed and its leading whitespace
\* kept, for suffixes passed to ImageGrid and for suffixes that are lines of
\* the suffix file. (Violated for the lines of a file: the loaders strip()
\* each line, which removes its leading whitespace too.)
C12_PathKeepsLeadingWhitespace ==
    \A k \in 1..Len(views) :
        k <= Len(GivenSuffixes) => views[k].img_path = ClaimedPath(GivenSuffixes[k])

\* ------------------------------------------------ suffix file loaders: claims
\* The events in which a handler has read a suffix file.
LoaderEvent ==
    /\ ev.op \in {"main", "open", "edit", "save", "examples"}
    /\ ev.lines # <<>> \/ ev.suffixes # <<>>

\* The non-blank lines among the first n lines, in file order, each without
\* its line end and the whitespace around it.
NonBlankAmongFirst(lines, n) ==
    LET first == [k \in 1..(IF Len(lines) < n THEN Len(lines) ELSE n) |-> lines[k]]
        nonblank == SelectSeq(first, LAMBDA line : \E k \in 1..Len(line) :
                                                      line[k] \notin Whitespace)
    IN [k \in 1..Len(nonblank) |-> strip(nonblank[k])]

\* C13: every handler that reads the suffix file (program start, open
\* dataset, suffix editor, and the reload after a save or a dataset load)
\* yields the non-blank lines among the first MAX_IMAGES lines in file order,
\* at most MAX_IMAGES entries, and a truncation warning is given in the
\* handler whenever the file has more than MAX_IMAGES lines.
C13_LoadersAgree ==
    LoaderEvent =>
        /\ ev.suffixes = NonBlankAmongFirst(ev.lines, MAX_IMAGES)
        /\ Len(ev.suffixes) <= MAX_IMAGES
        /\ ev.op = "edit" => editor.items = ev.suffixes
        /\ ev.op \in {"save", "examples"} => list_of_suffix = ev.suffixes
        /\ ev.op = "main" /\ ev.exec => list_of_suffix = ev.suffixes
        /\ Len(ev.lines) > MAX_IMAGES =>
               \E k \in 1..Len(ev.warnings) : ev.warnings[k] = TruncationWarning

\* The editor has loaded a file of more than MAX_IMAGES lines whose first
\* line is blank, after the program start loaded the same file.
C13_Witness ==
    /\ ev.op = "edit"
    /\ Len(ev.lines) > MAX_IMAGES
    /\ Len(editor.items) = MAX_IMAGES - 1
    /\ list_of_suffix = editor.items
    /\ ev.warnings = <<TruncationWarning>>

\* -------------------------------------------------- program start: claims
\* The suffix file is missing, cannot be read or has no non-blank line.
NoSuffixToLoad(file) ==
    \/ ~file.is_file
    \/ ~file.readable
    \/ \A k \in 1..Len(file.lines) : \A j \in 1..Len(file.lines[k]) :
           file.lines[k][j] \in Whitespace

\* C14: when the program is started with a prefix and the suffix file is
\* missing, unreadable or without a non-blank line, the main window is
\* created with an empty suffix list (the welcome page, no views) and the
\* event loop is started.
C14_StartsWithoutSuffixes ==
    ev.op = "main" /\ ev.prefix # NoPrefix /\ NoSuffixToLoad(suffix_file) =>
        /\ page = "welcome"
        /\ list_of_suffix = <<>>
        /\ views = <<>>
        /\ pre_path = ev.prefix
        /\ ev.exec

\* The program was started with a prefix and a suffix file that has lines
\* and cannot be read.
C14_Witness ==
    /\ ev.op = "main"
    /\ ev.prefix = PrefixStr
    /\ suffix_file.is_file /\ ~suffix_file.readable /\ suffix_file.lines # <<>>
    /\ ev.warnings = <<ReadWarning>>
    /\ ev.exec

\* -------------------------------------------------------- wheel zoom: claims
\* The tolerance of the anchor: one pixel of the viewport.
Tolerance == Milli

\* C15: after a wheel zoom with the pointer over an image point at the
\* viewport position p, that image point is shown at p again, within the
\* tolerance, for zoom in and zoom out. (Violated: a scaled image that fits
\* in the viewport is centred in it, and the scroll bar cannot leave its
\* range.)
C15_ZoomKeepsAnchor ==
    geometry.op = "wheel" /\ geometry.over_image =>
        /\ geometry.anchor - geometry.pointer * Milli <= Tolerance
        /\ geometry.pointer * Milli - geometry.anchor <= Tolerance

\* ------------------------------------------------ image or error: claims
\* The scene of the view shows an error message.
ShowsError(view) == view.scene_text # NoText

\* C16: in every state of a view, after its construction from any arguments
\* and after any wheel events, drags, setViewRect, view_channel and
\* restore_original calls, the view either has an image or shows an error
\* message in its scene, never both and never neither.
C16_ImageXorError ==
    \A i \in 1..Len(views) : views[i].pixmap_item <=> ~ShowsError(views[i])

\* A view that was given an error and an in-memory image shows the error and
\* no image, and view_channel has been called on it.
C16_Witness ==
    /\ ev.op = "view_channel"
    /\ probe.error # NoError
    /\ HasQImage(probe.image)
    /\ ShowsError(views[1])
    /\ ~views[1].pixmap_item

\* ------------------------------------------------ ignored wheel events: claims
\* C17: a wheel event on a view without an image changes nothing and emits
\* nothing: the views, their transforms and guard flags are as before and no
\* viewRectChanged is emitted; and the wheel handler leaves a view that is
\* handling a wheel event as it is, emitting nothing, whatever the event.
C17_WheelIgnored ==
    [][/\ \A i \in 1..Len(views) :
              ev'.op = "wheel" /\ ev'.view = i /\ ~views[i].pixmap_item =>
                  /\ views' = views
                  /\ ev'.emits = <<>>
                  /\ ev'.calls = <<>>
       /\ \A i \in 1..Len(views), dy \in WheelDeltas,
             nh \in ScrollValues, nv \in ScrollValues :
              LET handling == World([views EXCEPT ![i].is_handling_wheel = TRUE])
              IN wheelEvent(handling, i, dy, nh, nv) = handling]_vars

\* A wheel event has been handled by a view without an image that has a
\* view with an image beside it.
C17_Witness ==
    /\ ev.op = "wheel"
    /\ ev.view \in 1..Len(views)
    /\ ~views[ev.view].pixmap_item
    /\ \E j \in 1..Len(views) : views[j].pixmap_item

\* ------------------------------------------------------ failed views: claims
\* C18: a view whose load failed never emits viewRectChanged, whatever wheel
\* events, drags and setViewRect calls it receives, and a setViewRect call
\* leaves it as it is. (Violated: a drag that moves a scroll bar of the view
\* makes it emit, and the other views follow it.)
C18_FailedViewSilent ==
    /\ \A k \in 1..Len(ev.emits) : views[ev.emits[k].view].pixmap_item
    /\ \A k \in 1..Len(ev.calls) :
           ~views[ev.calls[k].view].pixmap_item =>
               ~ev.calls[k].moved /\ ev.calls[k].emitted = 0

\* ------------------------------------------------------- status bar: claims
\* C19: after any sequence of pointer events on the views of a grid, the
\* status bar shows the ready message if the last event was a leave, and
\* "Path: " with the path of the view that was last entered or moved over
\* otherwise.
C19_StatusFollowsPointer ==
    /\ ev.op = "leave" => status = ReadyMessage
    /\ ev.op \in {"enter", "move"} => status = PathMessage(views[ev.view].img_path)

\* The pointer has moved over a view without an image, which leaves the
\* status bar as the enter event set it.
C19_Witness ==
    /\ ev.op = "move"
    /\ ~views[ev.view].pixmap_item
    /\ Len(views) > 1
    /\ status = PathMessage(views[ev.view].img_path)

\* ------------------------------------------------- welcome or grid: claims
\* C20: after construction and after any sequence of grid reloads, the
\* welcome page is the current page if and only if the list of suffixes is
\* empty, and then there are no views; otherwise the grid page is current
\* and holds one view per suffix; a reload that finds the suffix file
\* missing or unreadable ends in the welcome state. (Violated: the
\* RuntimeError of C10 ends a reload before the page is set.)
C20_WelcomeIffNoSuffixes ==
    /\ page = "welcome" <=> list_of_suffix = <<>>
    /\ page = "grid" <=> list_of_suffix # <<>>
    /\ list_of_suffix = <<>> => views = <<>>
    /\ list_of_suffix # <<>> => Len(views) = Len(list_of_suffix)
    /\ ev.op = "reload" /\ ~(suffix_file.is_file /\ suffix_file.readable) =>
           page = "welcome" /\ list_of_suffix = <<>>
\* ------------------------------------------- the suffix editor's limit: claims
\* An add at the limit: the handler runs with max_suffixes items in the list.
AddAtLimit == AddSuffix /\ Len(editor.items) >= MAX_IMAGES

\* C21: in the suffix editor, after loading and after every add, remove and
\* edit, the list has at most max_suffixes entries and the Add button is
\* enabled exactly when the list has fewer than max_suffixes entries; an add
\* at the limit leaves the list unchanged and shows a warning.
C21_EditorLimit ==
    /\ [](editor.open =>
             /\ Len(editor.items) <= MAX_IMAGES
             /\ editor.add_enabled <=> Len(editor.items) < MAX_IMAGES)
    /\ [][AddAtLimit =>
             /\ editor'.items = editor.items
             /\ ev'.warnings = <<"Limit Reached">>]_vars

\* An add was attempted on a full list, and the Add button is disabled.
C21_Witness ==
    /\ editor.open
    /\ Len(editor.items) = MAX_IMAGES
    /\ ~editor.add_enabled
    /\ ev.op = "add"
    /\ ev.warnings = <<"Limit Reached">>

\* ------------------------------------------- saving and loading again: claims
\* The text of a file that has the given lines.
RECURSIVE TextOf(_)
TextOf(lines) == IF lines = <<>> THEN <<>> ELSE Head(lines) \o TextOf(Tail(lines))

\* The editor's list is saved: the file is written and the grid reloaded.
Saved == SaveEditor /\ ev'.op = "save" /\ ev'.warnings = <<>>

\* C22: saving the editor's list and loading the written file again, by the
\* grid's reload or in a new editor, gives the same suffixes in the same
\* order; the written file ends with a newline when the list is non-empty
\* and is empty when the list is empty.
C22_SaveLoadRoundTrip ==
    [][Saved =>
          /\ list_of_suffix' = editor.items
          /\ ReadSuffixes(LinesRead(suffix_file'), MAX_IMAGES) = editor.items
          /\ editor.items = <<>> => TextOf(suffix_file'.lines) = <<>>
          /\ editor.items # <<>> => Last(TextOf(suffix_file'.lines)) = "NL"]_vars

\* ------------------------------------------- channels and restoring: claims
\* The view as its constructor left it: it holds the image originally loaded.
LoadedView ==
    ZoomableView(PathStem(probe.path), probe.path, probe.image, probe.error,
                 probe.file)

\* The pixels of an image, and two images with the same pixels.
Pixels(img) == (0..(img.w - 1)) \X (0..(img.h - 1))
PixelIdentical(a, b) ==
    /\ a.w = b.w /\ a.h = b.h
    /\ \A p \in Pixels(a) : pixelColor(a, p[1], p[2]) = pixelColor(b, p[1], p[2])

\* The image is the grayscale image of channel c of the image `of`.
ShowsChannel(img, c, of) ==
    /\ isGrayscale(img)
    /\ img.w = of.w /\ img.h = of.h
    /\ \A p \in Pixels(of) :
           \A k \in 1..3 : pixelColor(img, p[1], p[2])[k] =
                               pixelColor(of, p[1], p[2])[ChannelOf(c)]

\* After restore_original the view is as it was loaded.
RestoredAsLoaded(view) ==
    /\ PixelIdentical(view.image, LoadedView.image)
    /\ view.title = <<view.label_text, "">>
    /\ view.original_image = NoImage
    /\ view.current_channel = ""

\* C23: on a view with an image, after any view_channel and restore_original
\* calls that end with restore_original, the image has the pixels of the
\* image originally loaded, the title is the label and _original_image and
\* _current_channel are None; and while a channel is shown, every pixel of
\* the displayed grayscale image has the value of that channel of the
\* original pixel.
C23_ChannelAndRestore ==
    \A i \in 1..Len(views) :
        views[i].pixmap_item =>
            /\ ev.op = "restore_original" => RestoredAsLoaded(views[i])
            /\ views[i].current_channel \in {ChannelNames[c] : c \in 1..4} =>
                   ShowsChannel(views[i].image, views[i].current_channel,
                                LoadedView.image)

\* ------------------------------------------- a channel of the original: claims
\* The channels that an image has: the ones its context menu can offer.
ChannelsOf(img) ==
    (IF isGrayscale(img) THEN {} ELSE {"Red", "Green", "Blue"})
    \cup (IF hasAlphaChannel(img) THEN {"Alpha"} ELSE {})

\* The view was loaded with a colour image.
HasColourImage(view) ==
    /\ view.pixmap_item
    /\ HasQImage(LoadedView.image)
    /\ ~isGrayscale(LoadedView.image)

\* C29: on a view with a colour image, in every state and also while
\* another channel is shown, view_channel(c) leaves the view displaying
\* channel c of the image originally loaded, with _original_image equal to
\* that image; and _original_image is set exactly when _current_channel is.
C29_ChannelOfOriginal ==
    \A i \in 1..Len(views) :
        HasColourImage(views[i]) =>
            /\ ev.op = "view_channel" /\ ev.channel \in ChannelsOf(LoadedView.image) =>
                   /\ ShowsChannel(views[i].image, ev.channel, LoadedView.image)
                   /\ views[i].original_image = LoadedView.image
            /\ views[i].original_image # NoImage <=> views[i].current_channel # ""

\* ------------------------------------------------ opening a dataset: claims
\* The suffixes read by the handler that the selected file's name ends with.
MatchingSuffixes ==
    {ev.suffixes[k] : k \in {j \in 1..Len(ev.suffixes) :
                                EndsWith(PathName(ev.selected), ev.suffixes[j])}}
LongestMatching ==
    CHOOSE s \in MatchingSuffixes : \A t \in MatchingSuffixes : Len(t) <= Len(s)

\* A dataset was opened: a file was selected whose name ends with a suffix
\* of the suffix file beside it.
DatasetOpened ==
    /\ ev.op = "open"
    /\ ev.selected # NoSelection
    /\ MatchingSuffixes # {}

\* The selected path without the longest matching suffix at its end.
WithoutSuffix == SubSeq(ev.selected, 1, Len(ev.selected) - Len(LongestMatching))

\* pre_path and the suffix file are the new ones and the grid was reloaded
\* once, from that file.
LoadedDataset(prefix) ==
    /\ pre_path = prefix
    /\ suffix_file.is_file /\ suffix_file.readable
    /\ LinesRead(suffix_file) = ev.lines
    /\ list_of_suffix = ev.suffixes
    /\ ev.reloads = 1

SelectedDir ==
    SubSeq(ev.selected, 1, Len(ev.selected) - Len(PathName(ev.selected)) - 1)

C25_PanEmitsOnce ==
    (ev.op = "move" /\ has_image(views[ev.view])) =>
        /\ Len(ev.emits) = 1
        /\ Len(ev.calls) = Len(views) - 1

\* ------------------------------------------------ leaving a view: claims
\* C26: after the pointer has left a view, no view of the grid shows a pixel
\* readout: the overlays that the pointer moves before wrote on every view
\* are all cleared, not only the one of the view that was left.
C26_LeaveClearsAllReadouts ==
    ev.op = "leave" => \A j \in 1..Len(views) : views[j].pixel_info = NoPixelInfo

\* ------------------------------------------------ any column count: claims
\* C27: for every column count that the command line accepts, zero and
\* negative ones included, populating a non-empty grid completes without an
\* error and puts every entry in a cell of its own with row >= 0 and
\* 0 <= col < columns.
C27_AnyColumnCount ==
    (ev.op = "reload" /\ list_of_suffix # <<>>) =>
        /\ ~ev.raised
        /\ Len(grid_layout) = Len(list_of_suffix)
        /\ \A k \in 1..Len(grid_layout) :
               /\ grid_layout[k].row >= 0
               /\ 0 <= grid_layout[k].col
               /\ grid_layout[k].col < columns
               /\ \A m \in 1..Len(grid_layout) :
                      grid_layout[m] = grid_layout[k] => m = k

\* ------------------------------------- an open-dataset flow that fails: claims
\* C28: every unsuccessful outcome of the open-dataset flow (dialog
\* cancelled, suffix file missing beside the selected file, unreadable or
\* without entries, file name ending with no suffix) leaves pre_path, the
\* suffix file, list_of_suffix, the views and the page as they are and does
\* not reload the grid.
C28_FailedOpenChangesNothing ==
    [][(ev'.op = "open" /\ ~DatasetOpened') =>
          /\ UNCHANGED <<pre_path, suffix_file, list_of_suffix, views, grid_layout,
                         page, status>>
          /\ ev'.reloads = 0]_vars

\* A file was selected whose name ends with no suffix of the suffix file
\* beside it, while the grid shows another dataset.
C28_Witness ==
    /\ ev.op = "open"
    /\ ev.warnings = <<"Could Not Deduce Prefix">>
    /\ ev.suffixes # <<>>
    /\ list_of_suffix # ev.suffixes
    /\ views # <<>>

\* ------------------------------------------------------- wheel zoom: claims
\* C30: a wheel event on a view that shows an image scales the view by 1.15
\* exactly when its vertical delta is positive and by 1/1.15 exactly when
\* its vertical delta is negative, and a wheel event whose vertical delta is
\* zero leaves the zoom level as it is. (Violated: wheelEvent takes the
\* factor 1/1.15 whenever the delta is not positive, so a horizontal scroll,
\* whose vertical delta is zero, zooms out by one step.)
C30_WheelZoomByDelta ==
    [][\A i \in 1..Len(views) :
          (/\ ev'.op = "wheel"
           /\ ev'.view = i
           /\ has_image(views[i])
           /\ ~views[i].is_handling_wheel) =>
              views'[i].zoom = views[i].zoom + (IF ev'.delta > 0 THEN 1
                                                ELSE IF ev'.delta < 0 THEN -1
                                                ELSE 0)]_vars

====
